---- MODULE Spec2Model ----
(***************************************************************************)
(* Model of the scaling-analysis harness of Qiskit.ipynb:                  *)
(*   analyze_algorithm_scaling  (the size sweep, lines 291-329)            *)
(*   plot_scaling_trends        (the three-model comparison, 331-446)      *)
(*   extrapolate_performance    (fits and crossover search, 448-525)       *)
(*   simulate_with_detailed_metrics (one graph in detail, 129-285)         *)
(*   classical_shortest_path and create_graph (34-53)                      *)
(*   compute_r2                 (the score of a fit, 364-367)              *)
(* together with the two circuit builders the sweep measures.              *)
(*                                                                         *)
(* Numbers: circuit metrics are integers and are computed exactly.         *)
(* n*log2(n) is kept as its integer part; NaN is the value NaN below.      *)
(***************************************************************************)
EXTENDS Integers, Sequences, FiniteSets, TLC

VARIABLES
    pc,          \* position in analyze_algorithm_scaling / plot_scaling_trends
    err,         \* the exception that ended the call ("" while none)
    max_nodes,   \* argument of analyze_algorithm_scaling
    step,        \* argument of analyze_algorithm_scaling
    results,     \* the dict built at lines 294-303 (key "nodes" included)
    idx,         \* number of sizes the for loop has fully processed
    G,           \* the graph of the current iteration
    insts,       \* history: the graphs generated, in order
    qw_seen,     \* history: the graph each quantum-walk build was given
    qaoa_seen,   \* history: the graph each QAOA build was given
    fit,         \* plot_scaling_trends: state of each of the three fits
    r2,          \* plot_scaling_trends: the models whose R^2 was computed
    xpc,         \* position in extrapolate_performance
    xerr,        \* the exception that ended extrapolate_performance
    measured,    \* argument measured_results of extrapolate_performance
    popt_qw,     \* fitted (a, b) of sqrt_model
    popt_classical, \* fitted (a, b) of nlogn_model
    sol,         \* what fsolve gave back
    report,      \* what the crossover search printed
    dpc,         \* position in simulate_with_detailed_metrics
    derr,        \* the exception that ended simulate_with_detailed_metrics
    dG,          \* argument G of simulate_with_detailed_metrics
    source,      \* argument source
    target,      \* argument target
    path,        \* what classical_shortest_path returned: the path
    length,      \* what classical_shortest_path returned: the length
    timing,      \* the five measured durations, in clock ticks
    circuits,    \* qw_circuit and qaoa_circuit
    metrics,     \* the dict returned at lines 262-285
    spc,         \* position in compute_r2
    y_true,      \* argument y_true of compute_r2
    y_pred,      \* argument y_pred of compute_r2
    score,       \* what compute_r2 returned
    wpc,         \* position in the two quantum-walk builds that are compared
    walk_in,     \* history: the two graphs as they were handed over
    walk_G,      \* the two graphs as they are now
    walk_metrics \* depth, gates and qubits read off each of the two circuits

vars == <<pc, err, max_nodes, step, results, idx, G, insts, qw_seen, qaoa_seen,
          fit, r2, xpc, xerr, measured, popt_qw, popt_classical, sol, report,
          dpc, derr, dG, source, target, path, length, timing, circuits, metrics,
          spc, y_true, y_pred, score, wpc, walk_in, walk_G, walk_metrics>>

sweepVars == <<pc, err, max_nodes, step, results, idx, G, insts, qw_seen,
               qaoa_seen, fit, r2>>

extrapVars == <<xpc, xerr, measured, popt_qw, popt_classical, sol, report>>

detailVars == <<dpc, derr, dG, source, target, path, length, timing, circuits, metrics>>

scoreVars == <<spc, y_true, y_pred, score>>

pairVars == <<wpc, walk_in, walk_G, walk_metrics>>

\* what each of the five functions leaves alone
outsideSweep == <<extrapVars, detailVars, scoreVars, pairVars>>

outsideExtrap == <<sweepVars, detailVars, scoreVars, pairVars>>

outsideDetail == <<sweepVars, extrapVars, scoreVars, pairVars>>

outsideScore == <<sweepVars, extrapVars, detailVars, pairVars>>

outsidePair == <<sweepVars, extrapVars, detailVars, scoreVars>>

(***************************************************************************)
(* Bounds of the model.                                                    *)
(***************************************************************************)
\* max_nodes is drawn from -NegNodesArg .. MaxNodesArg
MaxNodesArg == 7
NegNodesArg == 2
\* step is drawn from -NegStepArg .. MaxStepArg
MaxStepArg == 2
NegStepArg == 2
\* outcomes of the random draws of one generated graph: 0 .. MaxSeed
MaxSeed == 1
\* extrapolate_performance: the measured series has 0 .. MaxPoints points
MaxPoints == 3
\* extrapolate_performance: the series are a*f(n)+b with a, b in 0 .. MaxParam
MaxParam == 2
\* the root-finder's iterates are drawn from 4^0 .. 4^GridExp (and a few more)
GridExp == 7
\* simulate_with_detailed_metrics: generated graphs of 2 .. MaxDetailNodes nodes
MaxDetailNodes == 5
\* simulate_with_detailed_metrics: a measured duration is 0 .. MaxTick ticks
MaxTick == 1
\* compute_r2: series of at most MaxSeries points
MaxSeries == 3
\* compute_r2: values and predictions are 0 .. MaxValue
MaxValue == 2
\* the two compared quantum-walk builds: graphs of 1 .. MaxPairNodes nodes
MaxPairNodes == 8

(***************************************************************************)
(* Program constants.                                                      *)
(***************************************************************************)
SweepStart == 5
EdgeFactor == 2
WeightLow == 1
WeightHigh == 10
WalkSteps == 3
FitParams == 2
CrossoverSeed == 100
CrossoverLimit == 10000

\* The value numpy gives for 0 * -inf and for n * log2(n) with n < 0.
NaN == -1

(***************************************************************************)
(* Arithmetic helpers.                                                     *)
(***************************************************************************)
Max(S) == CHOOSE x \in S : \A y \in S : y <= x

Min(S) == CHOOSE x \in S : \A y \in S : x <= y

RECURSIVE Pow(_, _)
Pow(b, k) == IF k = 0 THEN 1 ELSE b * Pow(b, k - 1)

\* least k with 2^k >= n, for n >= 1: int(np.ceil(np.log2(n)))
RECURSIVE CeilLog2From(_, _)
CeilLog2From(n, k) == IF Pow(2, k) >= n THEN k ELSE CeilLog2From(n, k + 1)

CeilLog2(n) == CeilLog2From(n, 0)

\* greatest k with 2^k <= n, for n >= 1
RECURSIVE FloorLog2From(_, _)
FloorLog2From(n, k) == IF Pow(2, k + 1) > n THEN k ELSE FloorLog2From(n, k + 1)

FloorLog2(n) == FloorLog2From(n, 0)

IsPow2(x) == x >= 1 /\ Pow(2, FloorLog2(x)) = x

\* integer square root, exact on perfect squares
RECURSIVE ISqrtFrom(_, _)
ISqrtFrom(x, r) == IF (r + 1) * (r + 1) > x THEN r ELSE ISqrtFrom(x, r + 1)

ISqrt(x) == ISqrtFrom(x, 0)

RECURSIVE SumSeq(_, _)
SumSeq(s, k) == IF k > Len(s) THEN 0 ELSE s[k] + SumSeq(s, k + 1)

(***************************************************************************)
(* range(start, stop, step) for step # 0.                                  *)
(***************************************************************************)
RangeLen(start, stop, st) ==
    IF st > 0
    THEN (IF stop > start THEN (stop - start + st - 1) \div st ELSE 0)
    ELSE (IF stop < start THEN (start - stop + (-st) - 1) \div (-st) ELSE 0)

PyRange(start, stop, st) ==
    [i \in 1..RangeLen(start, stop, st) |-> start + (i - 1) * st]

(***************************************************************************)
(* The classical cost recorded at line 313: n * np.log2(n), integer part.  *)
(* floor(n*log2 n) = floor(log2(n^n)); n = 0 gives 0 * -inf = nan and      *)
(* n < 0 gives n * nan = nan.                                              *)
(***************************************************************************)
ClassicalOps(n) == IF n <= 0 THEN NaN ELSE FloorLog2(Pow(n, n))

(***************************************************************************)
(* The generated instance, lines 308-310.  nx.gnm_random_graph(n, m) gives *)
(* the complete graph when m >= n(n-1)/2 and m distinct random edges       *)
(* otherwise; every edge then gets a weight np.random.randint(1, 10).      *)
(* The random draws are indexed by seed.  An edge is a pair <<u, v>> with  *)
(* u < v; w maps each edge to its weight.                                  *)
(***************************************************************************)
Seeds == 0..MaxSeed

NodeCount(n) == IF n < 0 THEN 0 ELSE n

MaxEdges(n) == (n * (n - 1)) \div 2

AllPairs(n) == {p \in (0..(n - 1)) \X (0..(n - 1)) : p[1] < p[2]}

\* position of <<u, v>> in the lexicographic order of the pairs, from 0
PairIndex(u, v, n) == u * n - ((u * (u + 1)) \div 2) + (v - u - 1)

GnmEdges(n, m, seed) ==
    IF n <= 1 THEN {}
    ELSE IF m >= MaxEdges(n) THEN AllPairs(n)
    ELSE {p \in AllPairs(n) :
             ((PairIndex(p[1], p[2], n) + seed) % MaxEdges(n)) < m}

RandWeight(u, v, n, seed) ==
    WeightLow + ((PairIndex(u, v, n) * (seed + 1) + seed) % (WeightHigh - WeightLow))

GenInstance(n, seed) ==
    LET k == NodeCount(n)
        E == GnmEdges(k, k * EdgeFactor, seed)
    IN  [n |-> k, w |-> [p \in E |-> RandWeight(p[1], p[2], k, seed)]]

NoGraph == [n |-> 0, w |-> [p \in {} |-> 0]]

(***************************************************************************)
(* Circuits.  A circuit is [nq, nc, ops]: the numbers of qubits and of     *)
(* classical bits and the instructions in program order, each instruction  *)
(* being the set of bits it acts on (qubit i is bit i, classical bit j is  *)
(* bit nq + j).                                                            *)
(***************************************************************************)
\* one single-qubit gate on each of the qubits lo .. hi-1, in order
GateLayer(lo, hi) == [k \in 1..(hi - lo) |-> {lo + k - 1}]

\* qc.measure(range(q), range(q)) on a circuit of nq qubits
MeasureLayer(q, nq) == [k \in 1..q |-> {k - 1, nq + k - 1}]

\* lines 83-84: qc.cx(n_qubits, i) for i in range(n_qubits)
ShiftLayer(q) == [k \in 1..q |-> {q, k - 1}]

RECURSIVE WalkStepOps(_, _)
WalkStepOps(q, s) ==
    IF s = 0 THEN <<>>
    ELSE GateLayer(q, 2 * q) \o ShiftLayer(q) \o WalkStepOps(q, s - 1)

\* variant of WalkRegister: the register sized for n - 1 values
WalkRegisterOffByOne(n) == CeilLog2(n - 1)

\* line 61
WalkRegister(n) == CeilLog2(n)

\* a walk that takes one step per edge of the graph, WalkSteps at most
QuantumWalkCircuitPerEdge(g) ==
    LET q == WalkRegister(g.n)
    IN  [nq  |-> 2 * q,
         nc  |-> q,
         ops |-> GateLayer(0, q) \o GateLayer(q, 2 * q)
                 \o WalkStepOps(q, Min({WalkSteps, Cardinality(DOMAIN g.w)})) \o MeasureLayer(q, 2 * q)]

\* create_quantum_walk_circuit(G), for a graph of at least one node
QuantumWalkCircuit(g) ==
    LET q == WalkRegister(g.n)
    IN  [nq  |-> 2 * q,
         nc  |-> q,
         ops |-> GateLayer(0, q) \o GateLayer(q, 2 * q)
                 \o WalkStepOps(q, WalkSteps) \o MeasureLayer(q, 2 * q)]

\* adj_matrix[i, j] of nx.to_numpy_array(G): the weight, 0 where no edge
Adj(g, i, j) == IF <<i, j>> \in DOMAIN g.w THEN g.w[<<i, j>>] ELSE 0

\* lines 109-114
RECURSIVE EdgeOps(_, _, _)
EdgeOps(g, i, j) ==
    IF i >= g.n THEN <<>>
    ELSE IF j >= g.n THEN EdgeOps(g, i + 1, i + 2)
    ELSE (IF Adj(g, i, j) > 0 THEN <<{i, j}, {j}, {i, j}>> ELSE <<>>)
         \o EdgeOps(g, i, j + 1)

\* create_simplified_qaoa_circuit(G)
QaoaCircuit(g) ==
    [nq  |-> g.n,
     nc  |-> g.n,
     ops |-> GateLayer(0, g.n) \o GateLayer(0, g.n) \o EdgeOps(g, 0, 1)
             \o GateLayer(0, g.n) \o MeasureLayer(g.n, g.n)]

\* QuantumCircuit.depth(): the longest chain of instructions sharing bits.
\* An instruction acts on one or two bits here: a and b below are all of them.
RECURSIVE Levels(_, _, _)
Levels(ops, k, lv) ==
    IF k > Len(ops) THEN lv
    ELSE LET m == Max({lv[x] : x \in ops[k]}) + 1
             a == Min(ops[k])
             b == Max(ops[k])
         IN  Levels(ops, k + 1, [lv EXCEPT ![a] = m, ![b] = m])

Depth(c) ==
    IF c.nq + c.nc = 0 THEN 0
    ELSE LET lv == Levels(c.ops, 1, [x \in 0..(c.nq + c.nc - 1) |-> 0])
         IN  Max({lv[x] : x \in DOMAIN lv})

\* sum(qc.count_ops().values())
GateCount(c) == Len(c.ops)

\* qc.num_qubits
QubitCount(c) == c.nq

(***************************************************************************)
(* plot_scaling_trends: scipy's curve_fit, as far as its outcome depends   *)
(* on the number of points.  An empty ydata is refused with ValueError;    *)
(* leastsq refuses fewer points than parameters with TypeError; every      *)
(* other series is fitted (with exactly as many points as parameters the   *)
(* covariance cannot be estimated, which is only a warning).               *)
(***************************************************************************)
CurveFitStatus(xs, ys) ==
    IF Len(ys) = 0 THEN "ValueError"
    ELSE IF Len(ys) < FitParams THEN "TypeError"
    ELSE "ok"

Models == {"sqrt", "log", "linear"}

MetricKeys == {"classical_ops", "qw_depth", "qw_gates", "qw_qubits",
               "qaoa_depth", "qaoa_gates", "qaoa_qubits"}

EmptyResults ==
    [nodes |-> <<>>, classical_ops |-> <<>>, qw_depth |-> <<>>, qw_gates |-> <<>>,
     qw_qubits |-> <<>>, qaoa_depth |-> <<>>, qaoa_gates |-> <<>>,
     qaoa_qubits |-> <<>>]

NoFit == [m \in Models |-> "pending"]

NoPopt == [a |-> 0, b |-> 0]

\* converged: fsolve stopped at a root of the equation
NoSol == [x |-> 0, converged |-> FALSE]

NoTiming == [classical |-> 0, qw_creation |-> 0, qw_simulation |-> 0,
             qaoa_creation |-> 0, qaoa_simulation |-> 0]

NoCircuit == [nq |-> 0, nc |-> 0, ops |-> <<>>]

NoCircuits == [qw |-> NoCircuit, qaoa |-> NoCircuit]

\* simulate_with_detailed_metrics is not running
DetailIdle ==
    /\ dpc = "idle"
    /\ derr = ""
    /\ dG = NoGraph
    /\ source = 0
    /\ target = 0
    /\ path = <<>>
    /\ length = 0
    /\ timing = NoTiming
    /\ circuits = NoCircuits
    /\ metrics = <<>>

NoScore == [kind |-> "none", num |-> 0, den |-> 1]

\* compute_r2 is not running
ScoreIdle ==
    /\ spc = "idle"
    /\ y_true = <<>>
    /\ y_pred = <<>>
    /\ score = NoScore

\* no pair of quantum-walk builds is being compared
PairIdle ==
    /\ wpc = "idle"
    /\ walk_in = <<>>
    /\ walk_G = <<>>
    /\ walk_metrics = <<>>

(***************************************************************************)
(* extrapolate_performance is not running in the sweep's specification.    *)
(***************************************************************************)
ExtrapIdle ==
    /\ xpc = "idle"
    /\ xerr = ""
    /\ measured = [nodes |-> <<>>, qw_depth |-> <<>>, classical_ops |-> <<>>]
    /\ popt_qw = NoPopt
    /\ popt_classical = NoPopt
    /\ sol = NoSol
    /\ report = "none"

(***************************************************************************)
(* analyze_algorithm_scaling(max_nodes, step): the state at entry.         *)
(***************************************************************************)
Init ==
    /\ pc = "start"
    /\ err = ""
    /\ max_nodes \in (-NegNodesArg)..MaxNodesArg
    /\ step \in (-NegStepArg)..MaxStepArg
    /\ results = EmptyResults
    /\ idx = 0
    /\ G = NoGraph
    /\ insts = <<>>
    /\ qw_seen = <<>>
    /\ qaoa_seen = <<>>
    /\ fit = NoFit
    /\ r2 = {}
    /\ ExtrapIdle
    /\ DetailIdle
    /\ ScoreIdle
    /\ PairIdle

\* an exception leaves the function: nothing in lines 291-446 catches one
Raise(e) ==
    /\ pc' = "failed"
    /\ err' = e

\* lines 293-303: range() refuses a zero step; the whole list of sizes is
\* stored under "nodes" before the loop starts
BuildRange ==
    /\ pc = "start"
    /\ IF step = 0
       THEN /\ Raise("ValueError")
            /\ UNCHANGED results
       ELSE /\ results' = [EmptyResults EXCEPT
                              !.nodes = PyRange(SweepStart, max_nodes + 1, step)]
            /\ pc' = "loop"
            /\ UNCHANGED err
    /\ UNCHANGED <<max_nodes, step, idx, G, insts, qw_seen, qaoa_seen, fit, r2>>
    /\ UNCHANGED outsideSweep

\* lines 305-310: the next size's graph is generated
Generate ==
    /\ pc = "loop"
    /\ idx < Len(results.nodes)
    /\ \E seed \in Seeds :
          /\ G' = GenInstance(results.nodes[idx + 1], seed)
          /\ insts' = Append(insts, G')
    /\ pc' = "classical"
    /\ UNCHANGED <<err, max_nodes, step, results, idx, qw_seen, qaoa_seen, fit, r2>>
    /\ UNCHANGED outsideSweep

\* lines 308-310: the generator raises (MemoryError, an interrupt)
GenerateRaises ==
    /\ pc = "loop"
    /\ idx < Len(results.nodes)
    /\ Raise("Exception")
    /\ UNCHANGED <<max_nodes, step, results, idx, G, insts, qw_seen, qaoa_seen, fit, r2>>
    /\ UNCHANGED outsideSweep

\* line 313
RecordClassical ==
    /\ pc = "classical"
    /\ results' = [results EXCEPT
                      !.classical_ops = Append(@, ClassicalOps(results.nodes[idx + 1]))]
    /\ pc' = "qw"
    /\ UNCHANGED <<err, max_nodes, step, idx, G, insts, qw_seen, qaoa_seen, fit, r2>>
    /\ UNCHANGED outsideSweep

\* variant of RecordWalk: the append of line 318 is missing
RecordWalkDropsGates ==
    /\ pc = "qw"
    /\ G.n >= 1
    /\ LET c == QuantumWalkCircuit(G)
       IN  results' = [results EXCEPT !.qw_depth = Append(@, Depth(c)),
                                      !.qw_qubits = Append(@, QubitCount(c))]
    /\ qw_seen' = Append(qw_seen, G)
    /\ pc' = "qaoa"
    /\ UNCHANGED <<err, max_nodes, step, idx, G, insts, qaoa_seen, fit, r2>>
    /\ UNCHANGED outsideSweep

\* lines 316-319: the walk circuit is built from G and its metrics appended;
\* the builder reads G.number_of_nodes() only and leaves G as it is
RecordWalk ==
    /\ pc = "qw"
    /\ G.n >= 1
    /\ LET c == QuantumWalkCircuit(G)
       IN  results' = [results EXCEPT !.qw_depth = Append(@, Depth(c)),
                                      !.qw_gates = Append(@, GateCount(c)),
                                      !.qw_qubits = Append(@, QubitCount(c))]
    /\ qw_seen' = Append(qw_seen, G)
    /\ pc' = "qaoa"
    /\ UNCHANGED <<err, max_nodes, step, idx, G, insts, qaoa_seen, fit, r2>>
    /\ UNCHANGED outsideSweep

\* line 316: the builder raises.  On a graph without nodes it always does:
\* np.log2(0) is -inf and int(-inf) is an OverflowError (line 61)
WalkRaises ==
    /\ pc = "qw"
    /\ Raise(IF G.n = 0 THEN "OverflowError" ELSE "Exception")
    /\ UNCHANGED <<max_nodes, step, results, idx, G, insts, qw_seen, qaoa_seen, fit, r2>>
    /\ UNCHANGED outsideSweep

\* variant of RecordQaoa: the graph is generated again for the QAOA build
RecordQaoaRegenerates ==
    /\ pc = "qaoa"
    /\ \E seed \in Seeds :
          /\ G' = GenInstance(results.nodes[idx + 1], seed)
          /\ insts' = Append(insts, G')
          /\ LET c == QaoaCircuit(G')
             IN  results' = [results EXCEPT !.qaoa_depth = Append(@, Depth(c)),
                                            !.qaoa_gates = Append(@, GateCount(c)),
                                            !.qaoa_qubits = Append(@, QubitCount(c))]
          /\ qaoa_seen' = Append(qaoa_seen, G')
    /\ idx' = idx + 1
    /\ pc' = "loop"
    /\ UNCHANGED <<err, max_nodes, step, qw_seen, fit, r2>>
    /\ UNCHANGED outsideSweep

\* lines 321-324, and the loop moves on to the next size
RecordQaoa ==
    /\ pc = "qaoa"
    /\ LET c == QaoaCircuit(G)
       IN  results' = [results EXCEPT !.qaoa_depth = Append(@, Depth(c)),
                                      !.qaoa_gates = Append(@, GateCount(c)),
                                      !.qaoa_qubits = Append(@, QubitCount(c))]
    /\ qaoa_seen' = Append(qaoa_seen, G)
    /\ idx' = idx + 1
    /\ pc' = "loop"
    /\ UNCHANGED <<err, max_nodes, step, G, insts, qw_seen, fit, r2>>
    /\ UNCHANGED outsideSweep

\* line 321: the builder raises
QaoaRaises ==
    /\ pc = "qaoa"
    /\ Raise("Exception")
    /\ UNCHANGED <<max_nodes, step, results, idx, G, insts, qw_seen, qaoa_seen, fit, r2>>
    /\ UNCHANGED outsideSweep

\* line 327: the loop is over and plot_scaling_trends(results) is called
CallPlot ==
    /\ pc = "loop"
    /\ idx = Len(results.nodes)
    /\ pc' = "fit_sqrt"
    /\ UNCHANGED <<err, max_nodes, step, results, idx, G, insts, qw_seen, qaoa_seen, fit, r2>>
    /\ UNCHANGED outsideSweep

\* one curve_fit call of lines 353-355, on (nodes, qw_depth)
FitModel(m, here, next) ==
    /\ pc = here
    /\ LET s == CurveFitStatus(results.nodes, results.qw_depth)
       IN  IF s = "ok"
           THEN /\ fit' = [fit EXCEPT ![m] = "ok"]
                /\ pc' = next
                /\ UNCHANGED err
           ELSE /\ fit' = [fit EXCEPT ![m] = "raised"]
                /\ Raise(s)
    /\ UNCHANGED <<max_nodes, step, results, idx, G, insts, qw_seen, qaoa_seen, r2>>
    /\ UNCHANGED outsideSweep

\* line 353
FitSqrt == FitModel("sqrt", "fit_sqrt", "fit_log")

\* line 354
FitLog == FitModel("log", "fit_log", "fit_linear")

\* line 355
FitLinear == FitModel("linear", "fit_linear", "score")

\* lines 369-375: R^2 of each of the three fits
ScoreFits ==
    /\ pc = "score"
    /\ r2' = {m \in Models : fit[m] = "ok"}
    /\ pc' = "rest"
    /\ UNCHANGED <<err, max_nodes, step, results, idx, G, insts, qw_seen, qaoa_seen, fit>>
    /\ UNCHANGED outsideSweep

\* lines 377-446 and 329: the log fit of qw_qubits, the ratios printed at
\* 440-446 (integer divisions by the first depth and the first qubit count),
\* and the return of results
FinishPlot ==
    /\ pc = "rest"
    /\ LET s == CurveFitStatus(results.nodes, results.qw_qubits)
       IN  IF s # "ok" THEN Raise(s)
           ELSE IF results.qw_depth[1] = 0 \/ results.qw_qubits[1] = 0
                THEN Raise("ZeroDivisionError")
                ELSE /\ pc' = "returned"
                     /\ UNCHANGED err
    /\ UNCHANGED <<max_nodes, step, results, idx, G, insts, qw_seen, qaoa_seen, fit, r2>>
    /\ UNCHANGED outsideSweep

Next ==
    \/ BuildRange
    \/ Generate
    \/ GenerateRaises
    \/ RecordClassical
    \/ RecordWalk
    \/ WalkRaises
    \/ RecordQaoa
    \/ QaoaRaises
    \/ CallPlot
    \/ FitSqrt
    \/ FitLog
    \/ FitLinear
    \/ ScoreFits
    \/ FinishPlot

Spec == Init /\ [][Next]_vars

(***************************************************************************)
(* extrapolate_performance(measured_results).                              *)
(*                                                                         *)
(* The sizes of the measured series are powers of 4, where sqrt(n) and     *)
(* log2(n) are integers, and the two series lie exactly on a curve of      *)
(* their model with integer parameters, so that the least-squares fits and *)
(* the difference of the two fitted curves are computed exactly.           *)
(***************************************************************************)
Params == [a : 0..MaxParam, b : 0..MaxParam]

\* sqrt_model, lines 453-454, at a perfect square x
SqrtModel(x, p) == p.a * ISqrt(x) + p.b

\* nlogn_model, lines 456-457, at a power of two x
NLogNModel(x, p) == p.a * x * FloorLog2(x) + p.b

PowSizes(k) == [i \in 1..k |-> Pow(4, i)]

MeasuredSeries(k, p1, p2) ==
    [nodes         |-> PowSizes(k),
     qw_depth      |-> [i \in 1..k |-> SqrtModel(Pow(4, i), p1)],
     classical_ops |-> [i \in 1..k |-> NLogNModel(Pow(4, i), p2)]]

\* the model function curve_fit is handed, by name
ModelValue(model, x, p) ==
    IF model = "sqrt" THEN SqrtModel(x, p) ELSE NLogNModel(x, p)

\* sum of squared residuals of the model's curve with parameters p
SSR(model, xs, ys, p) ==
    SumSeq([i \in 1..Len(xs) |->
               (ys[i] - ModelValue(model, xs[i], p)) * (ys[i] - ModelValue(model, xs[i], p))], 1)

\* curve_fit(model, xs, ys): the parameters of least squared residuals
LeastSquares(model, xs, ys) ==
    CHOOSE p \in Params : \A q \in Params : SSR(model, xs, ys, p) <= SSR(model, xs, ys, q)

\* crossover_equation(x) = 0, lines 515-516, at a perfect square x.
\* sqrt or log2 of a negative number is nan and 0 * log2(0) is nan: never 0.
\* Where x is no power of two, log2(x) is irrational, so the difference
\* vanishes only if the n*log2(n) term is absent.
CrossoverZero(x, pq, pcl) ==
    IF x <= 0 THEN FALSE
    ELSE IF IsPow2(x) THEN SqrtModel(x, pq) - NLogNModel(x, pcl) = 0
    ELSE pcl.a = 0 /\ SqrtModel(x, pq) - pcl.b = 0

Grid == {Pow(4, k) : k \in 0..GridExp}

\* values the root-finder may stop at without having converged
Iterates == Grid \cup {CrossoverSeed, 0, -CrossoverSeed, NaN}

\* the two fitted curves agree everywhere
IdenticalCurves(pq, pcl) == pq.a = 0 /\ pcl.a = 0 /\ pq.b = pcl.b

(***************************************************************************)
(* fsolve(crossover_equation, [100])[0], line 519.  Called without         *)
(* full_output, fsolve hands back its last iterate whether or not it       *)
(* converged (a failure is only a warning).  Where the equation already    *)
(* holds at the seed, MINPACK's hybrd stops there at once and reports      *)
(* convergence (fnorm = 0).  Otherwise it converges to some root or stops  *)
(* at some iterate.                                                        *)
(***************************************************************************)
FSolveOutcomes(pq, pcl) ==
    IF CrossoverZero(CrossoverSeed, pq, pcl)
    THEN {[x |-> CrossoverSeed, converged |-> TRUE]}
    ELSE {[x |-> r, converged |-> TRUE] : r \in {g \in Grid : CrossoverZero(g, pq, pcl)}}
         \cup {[x |-> c, converged |-> FALSE] : c \in Iterates}

\* analyze_algorithm_scaling is not running in this specification
SweepIdle ==
    /\ pc = "idle"
    /\ err = ""
    /\ max_nodes = 0
    /\ step = 0
    /\ results = EmptyResults
    /\ idx = 0
    /\ G = NoGraph
    /\ insts = <<>>
    /\ qw_seen = <<>>
    /\ qaoa_seen = <<>>
    /\ fit = NoFit
    /\ r2 = {}

InitExtrapolate ==
    /\ SweepIdle
    /\ DetailIdle
    /\ ScoreIdle
    /\ PairIdle
    /\ xpc = "fit_qw"
    /\ xerr = ""
    /\ \E k \in 0..MaxPoints, p1 \in Params, p2 \in Params :
          measured = MeasuredSeries(k, p1, p2)
    /\ popt_qw = NoPopt
    /\ popt_classical = NoPopt
    /\ sol = NoSol
    /\ report = "none"

\* an exception leaves extrapolate_performance (lines 450-510 catch none)
XRaise(e) ==
    /\ xpc' = "failed"
    /\ xerr' = e

\* line 460
XFitWalk ==
    /\ xpc = "fit_qw"
    /\ LET s == CurveFitStatus(measured.nodes, measured.qw_depth)
       IN  IF s = "ok"
           THEN /\ popt_qw' = LeastSquares("sqrt", measured.nodes, measured.qw_depth)
                /\ xpc' = "fit_classical"
                /\ UNCHANGED xerr
           ELSE /\ XRaise(s)
                /\ UNCHANGED popt_qw
    /\ UNCHANGED <<measured, popt_classical, sol, report>>
    /\ UNCHANGED outsideExtrap

\* line 463
XFitClassical ==
    /\ xpc = "fit_classical"
    /\ LET s == CurveFitStatus(measured.nodes, measured.classical_ops)
       IN  IF s = "ok"
           THEN /\ popt_classical' =
                       LeastSquares("nlogn", measured.nodes, measured.classical_ops)
                /\ xpc' = "solve"
                /\ UNCHANGED xerr
           ELSE /\ XRaise(s)
                /\ UNCHANGED popt_classical
    /\ UNCHANGED <<measured, popt_qw, sol, report>>
    /\ UNCHANGED outsideExtrap

\* lines 465-519: the projections are printed and plotted, then fsolve runs
XSolve ==
    /\ xpc = "solve"
    /\ \E o \in FSolveOutcomes(popt_qw, popt_classical) : sol' = o
    /\ xpc' = "check"
    /\ UNCHANGED <<xerr, measured, popt_qw, popt_classical, report>>
    /\ UNCHANGED outsideExtrap

\* lines 524-525: anything raised inside the try block is swallowed
XSolveRaises ==
    /\ xpc = "solve"
    /\ report' = "undetermined"
    /\ xpc' = "done"
    /\ UNCHANGED <<xerr, measured, popt_qw, popt_classical, sol>>
    /\ UNCHANGED outsideExtrap

\* line 520
InRange(x) == x > 0 /\ x < CrossoverLimit

\* lines 520-523
XReport ==
    /\ xpc = "check"
    /\ report' = IF InRange(sol.x) THEN "crossover" ELSE "no_crossover"
    /\ xpc' = "done"
    /\ UNCHANGED <<xerr, measured, popt_qw, popt_classical, sol>>
    /\ UNCHANGED outsideExtrap

NextExtrapolate ==
    \/ XFitWalk
    \/ XFitClassical
    \/ XSolve
    \/ XSolveRaises
    \/ XReport

SpecExtrapolate == InitExtrapolate /\ [][NextExtrapolate]_vars

(***************************************************************************)
(* create_graph(), lines 40-53: five nodes and seven weighted edges.       *)
(***************************************************************************)
ExampleNodes == 5

ExampleEdges ==
    <<<<0, 1, 2>>, <<0, 2, 4>>, <<1, 2, 1>>, <<1, 3, 5>>, <<2, 3, 2>>,
      <<2, 4, 3>>, <<3, 4, 1>>>>

create_graph ==
    LET E == {ExampleEdges[i] : i \in DOMAIN ExampleEdges}
    IN  [n |-> ExampleNodes,
         w |-> [p \in {<<e[1], e[2]>> : e \in E} |->
                   (CHOOSE e \in E : e[1] = p[1] /\ e[2] = p[2])[3]]]

(***************************************************************************)
(* classical_shortest_path, lines 34-37.  nx.dijkstra_path and             *)
(* nx.dijkstra_path_length both run networkx's Dijkstra search from the    *)
(* source until the target is settled: a heap of (distance, counter, node) *)
(* entries, the dict dist of settled nodes, the dict seen of tentative     *)
(* distances and the dict paths of the path found to every seen node.      *)
(* A dict is a function on the set of its keys.                            *)
(***************************************************************************)
Put(dict, k, v) == (k :> v) @@ dict

\* G[u][v]["weight"] of the undirected graph; 0 where there is no edge
Weight(g, u, v) == IF u = v THEN 0 ELSE Adj(g, Min({u, v}), Max({u, v}))

RECURSIVE Ascending(_)
Ascending(S) == IF S = {} THEN <<>> ELSE <<Min(S)>> \o Ascending(S \ {Min(S)})

\* G[v]: the neighbours of v.  create_graph adds the edges in ascending
\* order, so its adjacency is ascending; for a generated graph the order
\* only decides which of several equally short paths is found.
Neighbors(g, v) == Ascending({u \in 0..(g.n - 1) : Weight(g, u, v) > 0})

\* a queue discipline that ignores the distances
HeapFirst(fringe) == 1

\* heappop: the entry with the least (distance, counter)
HeapMin(fringe) ==
    CHOOSE i \in 1..Len(fringe) : \A j \in 1..Len(fringe) :
        \/ fringe[i].d < fringe[j].d
        \/ fringe[i].d = fringe[j].d /\ fringe[i].c <= fringe[j].c

RemoveAt(s, i) == SubSeq(s, 1, i - 1) \o SubSeq(s, i + 1, Len(s))

\* the loop over the neighbours u of the node v that was just settled
RECURSIVE Relax(_, _, _, _)
Relax(g, st, v, nbrs) ==
    IF nbrs = <<>> \/ st.err # "" THEN st
    ELSE LET u == Head(nbrs)
             vu_dist == st.dist[v] + Weight(g, v, u)
             after ==
                 IF u \in DOMAIN st.dist
                 THEN (IF vu_dist < st.dist[u]
                       THEN [st EXCEPT !.err = "ValueError"]
                       ELSE st)
                 ELSE IF u \notin DOMAIN st.seen \/ vu_dist < st.seen[u]
                 THEN [st EXCEPT !.seen = Put(@, u, vu_dist),
                                 !.fringe = Append(@, [d |-> vu_dist, c |-> st.c, v |-> u]),
                                 !.c = @ + 1,
                                 !.paths = Put(@, u, Append(st.paths[v], u))]
                 ELSE st
         IN  Relax(g, after, v, Tail(nbrs))

\* the while loop: pop, skip a node already settled, settle, stop at the
\* target, relax the neighbours
RECURSIVE DijkstraLoop(_, _, _)
DijkstraLoop(g, st, t) ==
    IF st.fringe = <<>> \/ st.err # "" THEN st
    ELSE LET i == HeapMin(st.fringe)
             top == st.fringe[i]
             popped == [st EXCEPT !.fringe = RemoveAt(@, i)]
         IN  IF top.v \in DOMAIN st.dist THEN DijkstraLoop(g, popped, t)
             ELSE LET settled == [popped EXCEPT !.dist = Put(@, top.v, top.d)]
                  IN  IF top.v = t THEN settled
                      ELSE DijkstraLoop(g, Relax(g, settled, top.v, Neighbors(g, top.v)), t)

Dijkstra(g, s, t) ==
    DijkstraLoop(g, [dist |-> <<>>, seen |-> (s :> 0), paths |-> (s :> <<s>>),
                     fringe |-> <<[d |-> 0, c |-> 0, v |-> s]>>, c |-> 1,
                     err |-> ""], t)

\* the outcome of either call: the exception, or "" and the value
SearchError(run, t) ==
    IF run.err # "" THEN run.err
    ELSE IF t \notin DOMAIN run.dist THEN "NetworkXNoPath"
    ELSE ""

\* nx.dijkstra_path(G, source, target), line 35
dijkstra_path(g, s, t) ==
    LET run == Dijkstra(g, s, t)
    IN  [err |-> SearchError(run, t),
         value |-> IF SearchError(run, t) = "" THEN run.paths[t] ELSE <<>>]

\* nx.dijkstra_path_length(G, source, target), line 36
dijkstra_path_length(g, s, t) ==
    LET run == Dijkstra(g, s, t)
    IN  [err |-> SearchError(run, t),
         value |-> IF SearchError(run, t) = "" THEN run.dist[t] ELSE 0]

classical_shortest_path(g, s, t) ==
    LET p == dijkstra_path(g, s, t)
        l == dijkstra_path_length(g, s, t)
    IN  [err |-> IF p.err # "" THEN p.err ELSE l.err,
         path |-> p.value, length |-> l.value]

(***************************************************************************)
(* simulate_with_detailed_metrics(G, source, target), lines 129-285.       *)
(* G is create_graph() or a generated graph of 2 .. MaxDetailNodes nodes,  *)
(* source and target are nodes of G.  A duration time.time() - start_time  *)
(* is a number of clock ticks in 0 .. MaxTick.  The simulator's counts and *)
(* the plots go to the screen and to files, not into the returned dict.    *)
(***************************************************************************)
DetailGraphs ==
    {create_graph} \cup {GenInstance(n, seed) : n \in 2..MaxDetailNodes, seed \in Seeds}

Ticks == 0..MaxTick

InitDetailed ==
    /\ SweepIdle
    /\ ExtrapIdle
    /\ ScoreIdle
    /\ PairIdle
    /\ dpc = "classical"
    /\ derr = ""
    /\ dG \in DetailGraphs
    /\ source \in 0..(dG.n - 1)
    /\ target \in 0..(dG.n - 1)
    /\ path = <<>>
    /\ length = 0
    /\ timing = NoTiming
    /\ circuits = NoCircuits
    /\ metrics = <<>>

\* lines 139-141: the classical search, timed; an exception of networkx
\* leaves the function
DClassical ==
    /\ dpc = "classical"
    /\ LET r == classical_shortest_path(dG, source, target)
       IN  IF r.err # ""
           THEN /\ dpc' = "failed"
                /\ derr' = r.err
                /\ UNCHANGED <<path, length, timing>>
           ELSE /\ path' = r.path
                /\ length' = r.length
                /\ \E t \in Ticks : timing' = [timing EXCEPT !.classical = t]
                /\ dpc' = "qw_create"
                /\ UNCHANGED derr
    /\ UNCHANGED <<dG, source, target, circuits, metrics>>
    /\ UNCHANGED outsideDetail

\* lines 152-154
DWalkCreate ==
    /\ dpc = "qw_create"
    /\ circuits' = [circuits EXCEPT !.qw = QuantumWalkCircuit(dG)]
    /\ \E t \in Ticks : timing' = [timing EXCEPT !.qw_creation = t]
    /\ dpc' = "qw_simulate"
    /\ UNCHANGED <<derr, dG, source, target, path, length, metrics>>
    /\ UNCHANGED outsideDetail

\* lines 165-168
DWalkSimulate ==
    /\ dpc = "qw_simulate"
    /\ \E t \in Ticks : timing' = [timing EXCEPT !.qw_simulation = t]
    /\ dpc' = "qaoa_create"
    /\ UNCHANGED <<derr, dG, source, target, path, length, circuits, metrics>>
    /\ UNCHANGED outsideDetail

\* lines 200-202
DQaoaCreate ==
    /\ dpc = "qaoa_create"
    /\ circuits' = [circuits EXCEPT !.qaoa = QaoaCircuit(dG)]
    /\ \E t \in Ticks : timing' = [timing EXCEPT !.qaoa_creation = t]
    /\ dpc' = "qaoa_simulate"
    /\ UNCHANGED <<derr, dG, source, target, path, length, metrics>>
    /\ UNCHANGED outsideDetail

\* lines 213-216
DQaoaSimulate ==
    /\ dpc = "qaoa_simulate"
    /\ \E t \in Ticks : timing' = [timing EXCEPT !.qaoa_simulation = t]
    /\ dpc' = "return"
    /\ UNCHANGED <<derr, dG, source, target, path, length, circuits, metrics>>
    /\ UNCHANGED outsideDetail

\* the record of one circuit, lines 269-276 and 277-284
CircuitRecord(creation, simulation, c) ==
    [creation_time   |-> creation,
     simulation_time |-> simulation,
     total_time      |-> creation + simulation,
     depth           |-> Depth(c),
     gates           |-> GateCount(c),
     qubits          |-> QubitCount(c)]

\* lines 262-285
DReturn ==
    /\ dpc = "return"
    /\ metrics' =
          [classical    |-> [runtime    |-> timing.classical,
                             path       |-> path,
                             length     |-> length,
                             operations |-> ClassicalOps(dG.n)],
           quantum_walk |-> CircuitRecord(timing.qw_creation,
                                          timing.qw_simulation, circuits.qw),
           qaoa         |-> CircuitRecord(timing.qaoa_creation,
                                          timing.qaoa_simulation, circuits.qaoa)]
    /\ dpc' = "returned"
    /\ UNCHANGED <<derr, dG, source, target, path, length, timing, circuits>>
    /\ UNCHANGED outsideDetail

NextDetailed ==
    \/ DClassical
    \/ DWalkCreate
    \/ DWalkSimulate
    \/ DQaoaCreate
    \/ DQaoaSimulate
    \/ DReturn

SpecDetailed == InitDetailed /\ [][NextDetailed]_vars

(***************************************************************************)
(* compute_r2(y_true, y_pred), lines 364-367, on series of integers.       *)
(* np.mean(y_true) is the exact fraction sum/len, so ss_tot is kept as the *)
(* fraction num/den; the score is the fraction num/den of the record.      *)
(* numpy's float division by zero gives inf (nan for 0/0) and a warning,   *)
(* so 1 - ss_res/ss_tot is then -inf or nan.  The series have              *)
(* FitParams .. MaxSeries points (curve_fit has accepted them), each       *)
(* value and each prediction in 0 .. MaxValue.                             *)
(***************************************************************************)
SumSquares(s) == SumSeq([i \in DOMAIN s |-> s[i] * s[i]], 1)

\* line 365
SSTot(y) ==
    LET n == Len(y)
        total == SumSeq(y, 1)
    IN  [num |-> SumSquares([i \in DOMAIN y |-> n * y[i] - total]),
         den |-> n * n]

\* line 366
SSRes(y, p) == SumSquares([i \in DOMAIN y |-> y[i] - p[i]])

\* line 367
compute_r2(y, p) ==
    LET tot == SSTot(y)
        res == SSRes(y, p)
    IN  IF tot.num = 0
        THEN [kind |-> IF res = 0 THEN "nan" ELSE "-inf", num |-> 0, den |-> 1]
        ELSE [kind |-> "number", num |-> tot.num - res * tot.den, den |-> tot.num]

InitScore ==
    /\ SweepIdle
    /\ ExtrapIdle
    /\ DetailIdle
    /\ PairIdle
    /\ spc = "call"
    /\ \E k \in FitParams..MaxSeries :
          /\ y_true \in [1..k -> 0..MaxValue]
          /\ y_pred \in [1..k -> 0..MaxValue]
    /\ score = NoScore

\* one of the calls at lines 369-371
ComputeR2 ==
    /\ spc = "call"
    /\ score' = compute_r2(y_true, y_pred)
    /\ spc' = "scored"
    /\ UNCHANGED <<y_true, y_pred>>
    /\ UNCHANGED outsideScore

NextScore == ComputeR2

SpecScore == InitScore /\ [][NextScore]_vars

(***************************************************************************)
(* create_quantum_walk_circuit on two graphs of the same number of nodes,  *)
(* read as the sweep reads a circuit (lines 315-319).  The graphs of n     *)
(* nodes are the generated ones, the one without edges and, for n = 5,     *)
(* the graph of create_graph(); n is 1 .. MaxPairNodes.                    *)
(***************************************************************************)
EdgelessGraph(n) == [n |-> n, w |-> [p \in {} |-> 0]]

PairGraphs(n) ==
    {GenInstance(n, seed) : seed \in Seeds} \cup {EdgelessGraph(n)}
    \cup (IF n = ExampleNodes THEN {create_graph} ELSE {})

\* lines 316-319: what is read off a circuit
WalkMetrics(c) ==
    [depth |-> Depth(c), gates |-> GateCount(c), qubits |-> QubitCount(c)]

InitWalkPair ==
    /\ SweepIdle
    /\ ExtrapIdle
    /\ DetailIdle
    /\ ScoreIdle
    /\ wpc = "first"
    /\ \E n \in 1..MaxPairNodes : \E g1 \in PairGraphs(n), g2 \in PairGraphs(n) :
          walk_in = <<g1, g2>>
    /\ walk_G = walk_in
    /\ walk_metrics = <<>>

\* the builder reads G.number_of_nodes() and assigns nothing to G
WalkBuild(i, here, next) ==
    /\ wpc = here
    /\ walk_metrics' = Append(walk_metrics, WalkMetrics(QuantumWalkCircuit(walk_G[i])))
    /\ wpc' = next
    /\ UNCHANGED <<walk_in, walk_G>>
    /\ UNCHANGED outsidePair

BuildFirst == WalkBuild(1, "first", "second")

BuildSecond == WalkBuild(2, "second", "done")

NextWalkPair ==
    \/ BuildFirst
    \/ BuildSecond

SpecWalkPair == InitWalkPair /\ [][NextWalkPair]_vars

(***************************************************************************)
(* Properties.                                                             *)
(***************************************************************************)
StrictlyIncreasing(s) == \A i \in 1..(Len(s) - 1) : s[i] < s[i + 1]

MetricLengths(k) == \A key \in MetricKeys : Len(results[key]) = k

\* the sweeps the record invariants are stated for
ValidSweep == max_nodes >= SweepStart /\ step >= 1

\* C1: a valid sweep (max_nodes >= 5, step >= 1) that returns its record
\* returns one in which every metric sequence is as long as "nodes", entry i
\* of every metric is the value measured on the graph generated for
\* nodes[i], and "nodes" is strictly increasing.
C1_ReturnedRecordAligned ==
    (pc = "returned" /\ ValidSweep) =>
        /\ MetricLengths(Len(results.nodes))
        /\ Len(insts) = Len(results.nodes)
        /\ StrictlyIncreasing(results.nodes)
        /\ \A i \in 1..Len(results.nodes) :
              /\ insts[i].n = results.nodes[i]
              /\ results.classical_ops[i] = FloorLog2(Pow(results.nodes[i], results.nodes[i]))
              /\ results.qw_depth[i] = Depth(QuantumWalkCircuit(insts[i]))
              /\ results.qw_gates[i] = GateCount(QuantumWalkCircuit(insts[i]))
              /\ results.qw_qubits[i] = 2 * CeilLog2(results.nodes[i])
              /\ results.qaoa_depth[i] = Depth(QaoaCircuit(insts[i]))
              /\ results.qaoa_gates[i] = GateCount(QaoaCircuit(insts[i]))
              /\ results.qaoa_qubits[i] = results.nodes[i]

\* C1 witness: a valid sweep over three sizes has returned its record.
C1_Witness ==
    /\ pc = "returned"
    /\ ValidSweep
    /\ Len(results.nodes) >= 3

\* C2: for each size one graph is generated, and the walk build and the QAOA
\* build of that size are both given that graph, unchanged: the graphs the
\* builders saw are, size by size, the graphs generated, one per size.
C2_SameInstancePerSize ==
    /\ Len(qaoa_seen) = idx
    /\ Len(qw_seen) \in {idx, idx + 1}
    /\ Len(insts) \in {idx, idx + 1}
    /\ Len(qw_seen) <= Len(insts)
    /\ \A i \in 1..Len(insts) : insts[i].n = NodeCount(results.nodes[i])
    /\ \A i \in 1..Len(qw_seen) : qw_seen[i] = insts[i]
    /\ \A i \in 1..Len(qaoa_seen) : qaoa_seen[i] = insts[i] /\ qaoa_seen[i] = qw_seen[i]
    /\ (pc \in {"classical", "qw", "qaoa"}) => (Len(insts) = idx + 1 /\ G = insts[idx + 1])

\* C2 witness: two sizes are done, both builders having measured each, and
\* the two graphs differ.
C2_Witness ==
    /\ pc = "loop"
    /\ idx = 2
    /\ Len(qw_seen) = 2
    /\ Len(qaoa_seen) = 2
    /\ insts[1] # insts[2]

\* C3: if a valid sweep stops on an exception, the record left behind is a
\* truncated record: "nodes" and every metric sequence have the same length,
\* the number of sizes fully processed.
C3_StoppedSweepLeavesTruncatedRecord ==
    (ValidSweep /\ pc = "failed") =>
        /\ Len(results.nodes) = idx
        /\ MetricLengths(idx)

\* C4: a crossover size is reported only if the root-finder converged to a
\* root of the difference of the two fitted curves and that root is in the
\* accepted range.
C4_CrossoverOnlyFromConvergedRootInRange ==
    (xpc = "done" /\ report = "crossover") =>
        /\ sol.converged
        /\ CrossoverZero(sol.x, popt_qw, popt_classical)
        /\ InRange(sol.x)

\* C5: when the two fitted curves are identical, no crossover size is
\* reported.
C5_IdenticalCurvesGiveNoCrossover ==
    (xpc = "done" /\ IdenticalCurves(popt_qw, popt_classical)) =>
        report # "crossover"

\* C6: from a valid sweep of fewer than 3 sizes no fit succeeds, no R^2 is
\* computed and no record is returned.
C6_FewerThanThreeSizesNoFit ==
    (ValidSweep /\ pc # "start" /\ Len(results.nodes) < 3) =>
        /\ \A m \in Models : fit[m] # "ok"
        /\ r2 = {}
        /\ pc # "returned"

\* C7: a sweep with step <= 0 is rejected before any graph is generated and
\* before any metric is appended, and never returns a record.
C7_NonIncreasingRangeRejected ==
    (step <= 0) =>
        /\ insts = <<>>
        /\ MetricLengths(0)
        /\ pc # "returned"

\* C8: if one of the three fits of the comparison fails (valid sweep), the
\* other models are still fitted and the successful ones are scored.
C8_FitFailureDoesNotAbortComparison ==
    (ValidSweep /\ pc \in {"failed", "returned"} /\ \E m \in Models : fit[m] = "raised") =>
        /\ \A m \in Models : fit[m] # "pending"
        /\ r2 = {m \in Models : fit[m] = "ok"}

\* C9: no metrics are recorded for a graph of fewer than 2 nodes.
C9_SmallInstanceYieldsNoMetrics ==
    \A i \in 1..Len(insts) :
        insts[i].n < 2 =>
            /\ Len(results.qw_qubits) < i
            /\ Len(results.qaoa_qubits) < i

\* C10: for every measured graph of n >= 2 nodes the walk circuit has
\* 2*ceil(log2 n) >= 1 qubits, the QAOA circuit has n >= 1 qubits, and both
\* depths are >= 0.
C10_WidthAndDepthBounds ==
    /\ \A i \in 1..Len(results.qw_qubits) :
          insts[i].n >= 2 =>
              /\ results.qw_qubits[i] = 2 * CeilLog2(insts[i].n)
              /\ results.qw_qubits[i] >= 1
              /\ results.qw_depth[i] >= 0
    /\ \A i \in 1..Len(results.qaoa_qubits) :
          insts[i].n >= 2 =>
              /\ results.qaoa_qubits[i] = insts[i].n
              /\ results.qaoa_qubits[i] >= 1
              /\ results.qaoa_depth[i] >= 0

\* C10 witness: both circuits of a graph of exactly 2 nodes were measured.
C10_Witness ==
    \E i \in 1..Len(results.qaoa_qubits) :
        /\ insts[i].n = 2
        /\ results.qw_qubits[i] = 2
        /\ results.qaoa_qubits[i] = 2

\* the main script's call, lines 619-625: source 0, target 4
ExampleSource == 0

ExampleTarget == 4

PathWeight(g, p) ==
    SumSeq([i \in 1..(Len(p) - 1) |-> Weight(g, p[i], p[i + 1])], 1)

\* the paths of g from s to t that visit no node twice
SimplePaths(g, s, t) ==
    {p \in UNION {[1..k -> 0..(g.n - 1)] : k \in 1..g.n} :
        /\ p[1] = s
        /\ p[Len(p)] = t
        /\ \A i, j \in 1..Len(p) : i # j => p[i] # p[j]
        /\ \A i \in 1..(Len(p) - 1) : Weight(g, p[i], p[i + 1]) > 0}

\* C11: on the graph of create_graph() with source 0 and target 4 the
\* classical search does not fail, the path it returns starts at 0, ends at
\* 4, follows edges of the graph and weighs 6, the length it returns is 6,
\* and no path from 0 to 4 weighs less than 6.
C11_ExamplePathIsShortest ==
    (/\ dpc \notin {"idle", "classical"}
     /\ dG = create_graph
     /\ source = ExampleSource
     /\ target = ExampleTarget) =>
        /\ dpc # "failed"
        /\ Len(path) >= 1
        /\ path[1] = ExampleSource
        /\ path[Len(path)] = ExampleTarget
        /\ \A i \in 1..(Len(path) - 1) : Weight(dG, path[i], path[i + 1]) > 0
        /\ PathWeight(dG, path) = 6
        /\ length = 6
        /\ \A p \in SimplePaths(dG, ExampleSource, ExampleTarget) :
              PathWeight(dG, p) >= 6
        /\ \E p \in SimplePaths(dG, ExampleSource, ExampleTarget) :
              PathWeight(dG, p) = 6

C11_Witness ==
    /\ dpc = "returned"
    /\ dG = create_graph
    /\ source = ExampleSource
    /\ target = ExampleTarget
    /\ metrics.classical.path = <<0, 1, 2, 4>>
    /\ metrics.classical.length = 6

SolverKinds == {"classical", "quantum_walk", "qaoa"}

\* the names a record may give the time of its execution phase
ExecutionFields == {"simulation_time", "runtime"}

\* C12: in the dict simulate_with_detailed_metrics returns, each of the
\* classical, quantum-walk and QAOA records has a construction-time field
\* and, apart from it, an execution-time field, and the construction time
\* of the classical record is 0.
C12_EveryRecordHasBothTimes ==
    dpc = "returned" =>
        /\ \A k \in SolverKinds :
              /\ "creation_time" \in DOMAIN metrics[k]
              /\ ExecutionFields \cap DOMAIN metrics[k] # {}
        /\ metrics.classical.creation_time = 0

\* C13: for a series of at least 3 values compute_r2 returns a number, the
\* number is at most 1, and it equals 1 - ss_res / ss_tot; it is never nan
\* or infinite, whatever the series (a constant one included).
C13_ScoreIsNumberAtMostOne ==
    (spc = "scored" /\ Len(y_true) >= 3) =>
        /\ score.kind = "number"
        /\ score.num <= score.den
        /\ (score.den - score.num) * SSTot(y_true).num
              = SSRes(y_true, y_pred) * SSTot(y_true).den * score.den

\* C14: two graphs of the same number of nodes n, whatever their edges and
\* weights, get quantum-walk circuits of the same depth, the same number of
\* gates and the same number 2 * ceil(log2 n) of qubits, and building a
\* circuit leaves the graph it was built from as it was.
C14_WalkMetricsDependOnNodeCountOnly ==
    /\ wpc \in {"second", "done"} => walk_G = walk_in
    /\ wpc = "done" =>
          /\ walk_in[1].n = walk_in[2].n
          /\ walk_metrics[1] = walk_metrics[2]
          /\ walk_metrics[1].qubits = 2 * CeilLog2(walk_in[1].n)
          /\ walk_metrics[2].qubits = 2 * CeilLog2(walk_in[2].n)

\* two graphs that differ in their edges and in the weight of a common edge
C14_Witness ==
    /\ wpc = "done"
    /\ DOMAIN walk_in[1].w # DOMAIN walk_in[2].w
    /\ \E p \in DOMAIN walk_in[1].w \cap DOMAIN walk_in[2].w :
          walk_in[1].w[p] # walk_in[2].w[p]
    /\ walk_metrics[1].gates > 0
    /\ walk_metrics[1].depth > 0


====
